---------------------------- MODULE Spec2Model ----------------------------
(***************************************************************************)
(* A model of the match-making optimiser of src/matchmaking:               *)
(*   best_class_assignment, compute_objective, heuristic_team_split,       *)
(*   improved_team_split, find_best_team_split, calculate_total_cost,      *)
(*   choose_faction_pair_for_margin, determine_match_outcome_probability   *)
(*   and find_best_global_matches (match_manager.py), with the Player,     *)
(*   Team and Match classes they use.                                      *)
(*                                                                         *)
(* Numbers.  The program computes in floating point.  The model computes   *)
(* exactly, in integers that count fixed-point units: the variable `unit`  *)
(* is the number of model units in 1.0, chosen by each specification's     *)
(* initial predicate (10 where one decimal is enough, 10^7 where the       *)
(* 1e-6 tolerance of best_class_assignment has to be visible).  A          *)
(* proficiency, a score and an objective value x is the integer x * unit.  *)
(* Ratings (mmr) are plain integers.                                       *)
(*                                                                         *)
(* Randomness.  random.randrange and random.choice read the interpreter's  *)
(* global generator.  In the specification of the whole run (Spec) the     *)
(* generator is the variable `rng`, started at an arbitrary seed and       *)
(* advanced by a fixed function at every draw; in the specification of     *)
(* one team split (SpecSplit) every draw is an arbitrary choice.           *)
(***************************************************************************)
EXTENDS Integers, Sequences, FiniteSets, TLC

VARIABLES
    unit,                  \* fixed-point resolution: model units per 1.0
    pc,                    \* position of the running call
    \* ---- best_class_assignment called on its own (SpecRole)
    bca_players,           \* its argument: a list of players
    bca_result,            \* what it returned: [score, assignment]
    \* ---- improved_team_split called on its own (SpecSplit)
    match_players,         \* its argument: the 12 players of one group
    iterations,            \* its argument: the iteration budget
    trial,                 \* iterations of its loop done so far
    best_team1_players,    \* its local best_team1_players
    best_team2_players,    \* its local best_team2_players
    best_score,            \* its local best_score
    seed_score,            \* the objective heuristic_team_split returned
    oracle_min,            \* the least objective over all 924 splits
    \* ---- choose_faction_pair_for_margin called on its own (SpecSelect)
    predicted_margin,      \* its argument
    selection,             \* what it returned
    \* ---- find_best_global_matches (Spec)
    players,               \* its argument: the pool, a list of players
    selected_class,        \* Player.selected_class of every player, by id
    rng,                   \* state of the random generator
    partition,             \* local partition: list of groups
    best_cost,             \* local best_cost
    best_splits,           \* local best_splits: list of <<team1, team2>>
    improved,              \* local improved
    loop,                  \* position of the sweep: [i, j, p, q]
    faction_matchups,      \* the faction table load_faction_matchups reads
    team_factions,         \* Team.faction of both teams of every split
    matches,               \* local matches: the Match records appended
    invoked,               \* the functions the run has called so far
    error,                 \* the exception the run ended with, or "none"
    \* ---- repeated calls of one function (SpecCache, SpecOutcome)
    role_calls,            \* the calls of best_class_assignment made so far
    outcome_calls,         \* the calls of determine_match_outcome_probability
    \* ---- find_best_global_matches run twice (SpecTwice)
    run_seed,              \* the state the generator is seeded with
    first_run              \* what the first run left behind and returned

roleVars   == <<bca_players, bca_result>>
splitVars  == <<match_players, iterations, trial, best_team1_players,
                best_team2_players, best_score, seed_score, oracle_min>>
selectVars == <<predicted_margin, selection>>
runVars    == <<players, selected_class, rng, partition, best_cost,
                best_splits, improved, loop, team_factions, matches,
                invoked, error>>
logVars    == <<role_calls, outcome_calls, run_seed, first_run>>
vars == <<unit, pc, roleVars, splitVars, selectVars, runVars,
          faction_matchups, logVars>>

-----------------------------------------------------------------------------
(* Arithmetic helpers *)

Abs(x) == IF x < 0 THEN -x ELSE x

Range(s) == {s[k] : k \in DOMAIN s}

\* op(s[1]) + ... + op(s[Len(s)])
RECURSIVE SumOver(_, _)
SumOver(op(_), s) ==
    IF s = <<>> THEN 0 ELSE op(Head(s)) + SumOver(op, Tail(s))

-----------------------------------------------------------------------------
(* best_class_assignment *)

\* The roles in the order itertools.product enumerates them.
RoleNames == <<"Cavalry", "Infantry", "Archer">>

avg_scores == [Infantry |-> 160, Cavalry |-> 200, Archer |-> 250]

ideal_counts == [Cavalry |-> 1, Archer |-> 1, Infantry |-> 4]

penalty_weight == 50

\* player.proficiency.get(role, 0), in units.
\* A proficiency that remembers: the class an earlier run wrote to the
\* player is used up and counts for nothing.
ProficiencyAfterWrite(player, role) ==
    IF player.id \in DOMAIN selected_class /\ selected_class[player.id] = role
    THEN 0
    ELSE IF role \in DOMAIN player.proficiency
         THEN player.proficiency[role] ELSE 0

Proficiency(player, role) ==
    IF role \in DOMAIN player.proficiency THEN player.proficiency[role] ELSE 0

\* (prof / 10.0) * avg_scores[role], in units.
PredictedScore(player, role) ==
    (Proficiency(player, role) * avg_scores[role]) \div 10

Max3(a, b, c) == IF a >= b /\ a >= c THEN a ELSE IF b >= c THEN b ELSE c

\* max_possible: the sum over the players of the best score in any role.
MaxPossible(ps) ==
    SumOver(LAMBDA player : Max3(PredictedScore(player, "Infantry"),
                                 PredictedScore(player, "Cavalry"),
                                 PredictedScore(player, "Archer")),
            ps)

\* The greatest distance, in units, that is below the 1e-6 of line 55.
ExitTolerance == (unit - 1) \div 1000000

\* abs(net_score - max_possible) < 1e-6, on integers counting 1/unit.
WithinTolerance(net_score, max_possible) ==
    Abs(net_score - max_possible) <= ExitTolerance

\* A faulty variant of Candidate: the caps let a third Cavalry or Archer in.
CandidateLooseCap(n, early, max_possible, idx, cav, arc, total_score, acc) ==
    IF cav > 3 \/ arc > 3 THEN acc
    ELSE LET penalty == penalty_weight * unit *
                          (Abs(cav - ideal_counts["Cavalry"]) +
                           Abs(arc - ideal_counts["Archer"]) +
                           Abs((n - cav - arc) - ideal_counts["Infantry"]))
             net_score == total_score - penalty
         IN IF acc.asg = -1 \/ net_score > acc.score
            THEN [score |-> net_score, asg |-> idx,
                  stop |-> early /\ WithinTolerance(net_score, max_possible)]
            ELSE acc

\* The body of the loop for one complete role vector.  The vector is idx
\* written in base 3 (digit 0 Cavalry, 1 Infantry, 2 Archer, first player
\* first), cav and arc are its counts of Cavalry and Archer, total_score the
\* sum of its players' predicted scores.  acc is (best_net_score,
\* best_assignment, whether the loop has hit its break); asg = -1 is None,
\* and then score stands for -infinity.
Candidate(n, early, max_possible, idx, cav, arc, total_score, acc) ==
    IF cav > 2 \/ arc > 2 THEN acc
    ELSE LET penalty == penalty_weight * unit *
                          (Abs(cav - ideal_counts["Cavalry"]) +
                           Abs(arc - ideal_counts["Archer"]) +
                           Abs((n - cav - arc) - ideal_counts["Infantry"]))
             net_score == total_score - penalty
         IN IF acc.asg = -1 \/ net_score > acc.score
            THEN [score |-> net_score, asg |-> idx,
                  stop |-> early /\ WithinTolerance(net_score, max_possible)]
            ELSE acc

\* product(["Cavalry", "Infantry", "Archer"], repeat=len(players)), visited in
\* its order (the last position varies fastest): the vectors that extend the
\* first k roles, whose number in base 3 is idx.  Nothing is visited after
\* the break.
RECURSIVE Enumerate(_, _, _, _, _, _, _, _, _)
Enumerate(ps, early, max_possible, k, idx, cav, arc, total_score, acc) ==
    IF acc.stop THEN acc
    ELSE IF k = Len(ps)
    THEN Candidate(Len(ps), early, max_possible, idx, cav, arc, total_score, acc)
    ELSE LET player == ps[k + 1]
             a1 == Enumerate(ps, early, max_possible, k + 1, 3 * idx,
                             cav + 1, arc,
                             total_score + PredictedScore(player, "Cavalry"), acc)
             a2 == IF a1.stop THEN a1
                   ELSE Enumerate(ps, early, max_possible, k + 1, 3 * idx + 1,
                                  cav, arc,
                                  total_score + PredictedScore(player, "Infantry"), a1)
         IN IF a2.stop THEN a2
            ELSE Enumerate(ps, early, max_possible, k + 1, 3 * idx + 2,
                           cav, arc + 1,
                           total_score + PredictedScore(player, "Archer"), a2)

RECURSIVE Pow3(_)
Pow3(k) == IF k = 0 THEN 1 ELSE 3 * Pow3(k - 1)

\* The role vector numbered idx, as the tuple of role names the code returns.
RoleVector(n, idx) ==
    [k \in 1..n |-> RoleNames[((idx \div Pow3(n - k)) % 3) + 1]]

\* The enumeration, with the early exit (early = TRUE, the code) or run to
\* the end (early = FALSE).
EnumerateAll(ps, early) ==
    LET acc == Enumerate(ps, early, MaxPossible(ps), 0, 0, 0, 0, 0,
                         [score |-> 0, asg |-> -1, stop |-> FALSE])
    IN [score |-> acc.score,
        assignment |-> IF acc.asg = -1 THEN "None"
                       ELSE RoleVector(Len(ps), acc.asg)]

best_class_assignment(ps) == EnumerateAll(ps, TRUE)

-----------------------------------------------------------------------------
(* Team, compute_objective *)

\* Team.total_mmr, of a team given as the list of its players.
total_mmr(team) == SumOver(LAMBDA player : player.mmr, team)

\* sorted(..., key=lambda p: p.mmr, reverse=True): Python's sort is stable,
\* also with reverse=True, so players of equal mmr keep their order.
RECURSIVE InsertByMmr(_, _)
InsertByMmr(sorted, player) ==
    IF sorted = <<>> THEN <<player>>
    ELSE IF Head(sorted).mmr >= player.mmr
         THEN <<Head(sorted)>> \o InsertByMmr(Tail(sorted), player)
         ELSE <<player>> \o sorted

RECURSIVE SortedByMmr(_)
SortedByMmr(ps) ==
    IF ps = <<>> THEN <<>>
    ELSE InsertByMmr(SortedByMmr(SubSeq(ps, 1, Len(ps) - 1)), ps[Len(ps)])

beta == 100

theta == 1

HIGH_MMR_THRESHOLD == 7000

HighCount(team) ==
    Cardinality({k \in DOMAIN team : team[k].mmr >= HIGH_MMR_THRESHOLD})

\* compute_objective with its default weights, in units.  gamma = 0.1, so
\* gamma * pairwise_disparity is pairwise_disparity / 10.
compute_objective(team1, team2) ==
    LET overall_disparity == Abs(total_mmr(team1) - total_mmr(team2))
        sorted_team1 == SortedByMmr(team1)
        sorted_team2 == SortedByMmr(team2)
        pairwise_disparity ==
            SumOver(LAMBDA k : Abs(sorted_team1[k].mmr - sorted_team2[k].mmr),
                    <<1, 2, 3, 4, 5, 6>>)
        high_player_penalty == Abs(HighCount(team1) - HighCount(team2))
        class_diff == Abs(best_class_assignment(team1).score
                          - best_class_assignment(team2).score)
    IN unit * overall_disparity
       + (unit * pairwise_disparity) \div 10
       + beta * unit * high_player_penalty
       + theta * class_diff

-----------------------------------------------------------------------------
(* heuristic_team_split, improved_team_split *)

\* The players at the even (parity 0) or odd (parity 1) 0-based indices.
RECURSIVE EveryOther(_, _)
EveryOther(ps, parity) ==
    IF ps = <<>> THEN <<>>
    ELSE (IF parity = 0 THEN <<Head(ps)>> ELSE <<>>)
         \o EveryOther(Tail(ps), 1 - parity)

heuristic_team_split(group) ==
    LET sorted_players == SortedByMmr(group)
        team1 == EveryOther(sorted_players, 0)
        team2 == EveryOther(sorted_players, 1)
    IN [team1 |-> team1, team2 |-> team2,
        obj |-> compute_objective(team1, team2)]

\* A faulty variant of SwapAcross: the player of team 2 is copied into team 1
\* and team 2 keeps it.
SwapAcrossCopy(team1, team2, i, j) ==
    [team1 |-> [team1 EXCEPT ![i + 1] = team2[j + 1]],
     team2 |-> team2]

\* new_team1_players[i], new_team2_players[j] =
\*     new_team2_players[j], new_team1_players[i]     (i, j count from 0)
SwapAcross(team1, team2, i, j) ==
    [team1 |-> [team1 EXCEPT ![i + 1] = team2[j + 1]],
     team2 |-> [team2 EXCEPT ![j + 1] = team1[i + 1]]]

\* A faulty variant of TrySwap: a swap that leaves the objective equal is kept.
TrySwapOnTie(cur, i, j) ==
    LET new == [team1 |-> [cur.team1 EXCEPT ![i + 1] = cur.team2[j + 1]],
                team2 |-> [cur.team2 EXCEPT ![j + 1] = cur.team1[i + 1]]]
        new_score == compute_objective(new.team1, new.team2)
    IN IF new_score <= cur.obj
       THEN [team1 |-> new.team1, team2 |-> new.team2, obj |-> new_score]
       ELSE cur

\* One iteration of improved_team_split's loop, for the draws i and j, from
\* the best split so far cur = [team1, team2, obj].
TrySwap(cur, i, j) ==
    LET new == SwapAcross(cur.team1, cur.team2, i, j)
        new_score == compute_objective(new.team1, new.team2)
    IN IF new_score < cur.obj
       THEN [team1 |-> new.team1, team2 |-> new.team2, obj |-> new_score]
       ELSE cur

\* The exact strategy's result: the least objective over all C(12,6) = 924
\* ways of choosing roster 1 among the players of a group.
RECURSIVE Roster(_, _, _)
Roster(group, chosen, k) ==
    IF k > Len(group) THEN <<>>
    ELSE (IF k \in chosen THEN <<group[k]>> ELSE <<>>)
         \o Roster(group, chosen, k + 1)

BruteForceMin(group) ==
    LET all == DOMAIN group
        objectives ==
            {compute_objective(Roster(group, chosen, 1), Roster(group, all \ chosen, 1)) :
               chosen \in {c \in SUBSET all : 2 * Cardinality(c) = Len(group)}}
    IN CHOOSE v \in objectives : \A w \in objectives : v <= w

-----------------------------------------------------------------------------
(* SpecSplit: improved_team_split on one group, every draw arbitrary *)

MaxIterations == 2

Player(id, mmr, cavalry, infantry, archer) ==
    [id |-> id, mmr |-> mmr,
     proficiency |-> [Cavalry |-> cavalry, Infantry |-> infantry,
                      Archer |-> archer]]

\* Twelve players given by their ratings; proficiencies 10 / 5 / 0 in
\* rotating order, as the repository's simulations generate them.
RECURSIVE GroupFrom(_, _)
GroupFrom(mmrs, k) ==
    IF k > Len(mmrs) THEN <<>>
    ELSE <<CASE k % 3 = 0 -> Player(k, mmrs[k], 100, 50, 0)
             [] k % 3 = 1 -> Player(k, mmrs[k], 0, 100, 50)
             [] k % 3 = 2 -> Player(k, mmrs[k], 50, 0, 100)>>
         \o GroupFrom(mmrs, k + 1)

GroupOf(mmrs) == GroupFrom(mmrs, 1)

SplitGroups ==
    { GroupOf(<<7400, 7100, 6800, 6500, 6100, 5600, 5200, 4700, 4100, 3600, 3000, 2500>>),
      GroupOf(<<5000, 5000, 5000, 5000, 5000, 5000, 5000, 5000, 5000, 5000, 5000, 5000>>) }

Idle == <<>>

\* The variables of the calls a specification does not make.
NoRole == bca_players = Idle /\ bca_result = Idle

NoSelect == predicted_margin = Idle /\ selection = Idle

NoSplit ==
    /\ match_players = Idle /\ iterations = Idle /\ trial = Idle
    /\ best_team1_players = Idle /\ best_team2_players = Idle
    /\ best_score = Idle /\ seed_score = Idle /\ oracle_min = Idle

NoLog ==
    /\ role_calls = Idle /\ outcome_calls = Idle
    /\ run_seed = Idle /\ first_run = Idle

NoRun ==
    /\ players = Idle /\ selected_class = Idle /\ rng = Idle
    /\ partition = Idle /\ best_cost = Idle /\ best_splits = Idle
    /\ improved = Idle /\ loop = Idle /\ team_factions = Idle
    /\ matches = Idle /\ invoked = Idle /\ error = Idle

InitSplit ==
    /\ unit = 10
    /\ pc = "call"
    /\ match_players \in SplitGroups
    /\ oracle_min = 0
    /\ iterations \in 0..MaxIterations
    /\ trial = 0
    /\ best_team1_players = <<>>
    /\ best_team2_players = <<>>
    /\ best_score = 0
    /\ seed_score = 0
    /\ NoRole /\ NoSelect /\ NoRun /\ NoLog
    /\ faction_matchups = Idle

\* improved_team_split, line 101 to 103: the snake split is the first best.
SplitSeed ==
    /\ pc = "call"
    /\ \E seed \in {heuristic_team_split(match_players)} :
          /\ best_team1_players' = seed.team1
          /\ best_team2_players' = seed.team2
          /\ best_score' = seed.obj
          /\ seed_score' = seed.obj
    /\ pc' = "loop"
    /\ UNCHANGED <<logVars, unit, match_players, iterations, trial, oracle_min,
                   roleVars, selectVars, runVars, faction_matchups>>

\* One iteration of the loop, line 104 to 120, for some draws i and j.
SplitTrial ==
    /\ pc = "loop"
    /\ trial < iterations
    /\ \E i \in 0..5, j \in 0..5 :
         \E new \in {TrySwap([team1 |-> best_team1_players,
                              team2 |-> best_team2_players,
                              obj |-> best_score], i, j)} :
            /\ best_team1_players' = new.team1
            /\ best_team2_players' = new.team2
            /\ best_score' = new.obj
    /\ trial' = trial + 1
    /\ UNCHANGED <<logVars, unit, pc, match_players, iterations, seed_score, oracle_min,
                   roleVars, selectVars, runVars, faction_matchups>>

\* The loop is over: line 121 to 127 build the two teams and return.
SplitReturn ==
    /\ pc = "loop"
    /\ trial = iterations
    /\ pc' = "returned"
    /\ UNCHANGED <<logVars, unit, splitVars, roleVars, selectVars, runVars,
                   faction_matchups>>

NextSplit == SplitSeed \/ SplitTrial \/ SplitReturn

SpecSplit == InitSplit /\ [][NextSplit]_vars

-----------------------------------------------------------------------------
(* SpecExact: find_best_team_split beside the exact strategy's minimum *)

InitExact ==
    /\ unit = 10
    /\ pc = "oracle"
    /\ match_players \in SplitGroups
    /\ oracle_min = 0
    /\ iterations = MaxIterations
    /\ trial = 0
    /\ best_team1_players = <<>>
    /\ best_team2_players = <<>>
    /\ best_score = 0
    /\ seed_score = 0
    /\ NoRole /\ NoSelect /\ NoRun /\ NoLog
    /\ faction_matchups = Idle

\* The brute-force oracle is run on the group before the split is asked for.
ExactOracle ==
    /\ pc = "oracle"
    /\ oracle_min' = BruteForceMin(match_players)
    /\ pc' = "call"
    /\ UNCHANGED <<logVars, unit, match_players, iterations, trial, best_team1_players,
                   best_team2_players, best_score, seed_score,
                   roleVars, selectVars, runVars, faction_matchups>>

NextExact == ExactOracle \/ SplitSeed \/ SplitTrial \/ SplitReturn

SpecExact == InitExact /\ [][NextExact]_vars

-----------------------------------------------------------------------------
(* The random generator *)

\* The generator's next state.  Python's generator is a fixed function of
\* its state too; this one is small enough to explore.
RandNext(g) == (7 * g + 3) % 101

\* random.randrange(n) and the index random.choice picks in a list of n,
\* drawn in generator state g.
RandBelow(g, n) == g % n

-----------------------------------------------------------------------------
(* improved_team_split, find_best_team_split, calculate_total_cost as the
   run calls them: the draws come from the generator *)

\* The loop of improved_team_split, line 104 to 120, with `remaining`
\* iterations to go: i is drawn first, then j.
RECURSIVE SplitLoop(_, _, _)
SplitLoop(cur, remaining, g) ==
    IF remaining = 0 THEN [split |-> cur, rng |-> g]
    ELSE SplitLoop(TrySwap(cur, RandBelow(g, 6), RandBelow(RandNext(g), 6)),
                   remaining - 1, RandNext(RandNext(g)))

improved_team_split(group, budget, g) ==
    SplitLoop(heuristic_team_split(group), budget, g)

\* The budget find_best_team_split passes, iterations=50 at line 134, as
\* bounded for exploration.
FindIterations == 1

find_best_team_split(group, g) == improved_team_split(group, FindIterations, g)

\* The loop of calculate_total_cost over the groups still to split.
RECURSIVE CostLoop(_, _, _, _)
CostLoop(groups, total_cost, splits, g) ==
    IF groups = <<>>
    THEN [total_cost |-> total_cost, splits |-> splits, rng |-> g]
    ELSE LET found == find_best_team_split(Head(groups), g)
         IN CostLoop(Tail(groups), total_cost + found.split.obj,
                     Append(splits, [team1 |-> found.split.team1,
                                     team2 |-> found.split.team2]),
                     found.rng)

calculate_total_cost(groups, g) == CostLoop(groups, 0, <<>>, g)

-----------------------------------------------------------------------------
(* choose_faction_pair_for_margin *)

\* A faulty variant of ConsiderEntry: an entry that ties the best one
\* replaces it.
ConsiderEntryOnTie(acc, entry, margin) ==
    LET win_diff == entry.WinDifference
        diff == Abs(margin + win_diff)
    IN IF ~acc.found \/ diff <= acc.min_diff
       THEN [found |-> TRUE, min_diff |-> diff,
             best_pair |-> <<entry.Faction1, entry.Faction2>>,
             best_win_diff |-> win_diff]
       ELSE acc

\* The body of the loop for one entry.  acc is (best_pair, best_win_diff,
\* min_diff); found = FALSE is best_pair None, and then min_diff stands for
\* infinity.
ConsiderEntry(acc, entry, margin) ==
    LET win_diff == entry.WinDifference
        diff == Abs(margin + win_diff)
    IN IF ~acc.found \/ diff < acc.min_diff
       THEN [found |-> TRUE, min_diff |-> diff,
             best_pair |-> <<entry.Faction1, entry.Faction2>>,
             best_win_diff |-> win_diff]
       ELSE acc

RECURSIVE ConsiderEntries(_, _, _)
ConsiderEntries(acc, matchups, margin) ==
    IF matchups = <<>> THEN acc
    ELSE ConsiderEntries(ConsiderEntry(acc, Head(matchups), margin),
                         Tail(matchups), margin)

\* The call: the triple it returns, or the exception it raises when
\* best_pair is still None at line 171.
choose_faction_pair_for_margin(matchups, margin) ==
    LET acc == ConsiderEntries([found |-> FALSE, min_diff |-> 0,
                                best_pair |-> <<>>, best_win_diff |-> 0],
                               matchups, margin)
    IN IF acc.found
       THEN [raised |-> "none",
             value |-> <<acc.best_pair[1], acc.best_pair[2], acc.best_win_diff>>]
       ELSE [raised |-> "TypeError", value |-> <<>>]

\* ---- determine_match_outcome_probability, line 186 to 195.
\* X is kept exactly, in units of 1/(1000 * unit): with k1 = k2 = 1.0 and
\* k3 = 0.1 it is 1000 * unit times
\*   (gap / 1000) + (margin / 1000) + 0.1 * (faction_win_diff / 10).
LogitOf(team1, team2, faction_win_diff) ==
    unit * (total_mmr(team1) - total_mmr(team2))
      + (best_class_assignment(team1).score
           - best_class_assignment(team2).score)
      + 10 * faction_win_diff

\* math.exp(-X) raises OverflowError when -X is above ln(DBL_MAX), which is
\* 709.7827...: it does for every X at or below -709.783.
ExpRangeMilli == 709783

\* exp(-X) is at most 2^-53 when X is at least 53 * ln 2, which is
\* 36.7368...: for every X from 36.737 on, 1.0 + exp(-X) rounds to 1.0 and
\* the quotient of line 194 is 1.0 exactly.
SaturationMilli == 36737

\* The double 1.0, in the code of probabilities below.
ProbabilityOne == SaturationMilli * unit

\* Line 194.  A returned probability is written as the X it comes from, cut
\* off at the X where the double reaches 1.0: the logistic function is
\* increasing, so a smaller code is a probability that is no larger, and
\* the code ProbabilityOne is the double 1.0.  The quotient is never 0.0:
\* before exp(-X) grows enough for that, it overflows.
Logistic(x) ==
    IF x <= -(ExpRangeMilli * unit)
    THEN [raised |-> "OverflowError", probability |-> <<>>]
    ELSE [raised |-> "none",
          probability |-> IF x >= ProbabilityOne THEN ProbabilityOne ELSE x]

determine_match_outcome_probability(team1, team2, faction_win_diff) ==
    Logistic(LogitOf(team1, team2, faction_win_diff))

-----------------------------------------------------------------------------
(* SpecSelect: choose_faction_pair_for_margin on one table and margin *)

MaxTable == 3

Matchup(f1, f2, win_difference) ==
    [Faction1 |-> f1, Faction2 |-> f2, WinDifference |-> win_difference]

\* Entries of a faction table, win differences in units of 0.1: two pairs
\* with the same difference, its opposite, and an even pair.
MatchupEntries ==
    { Matchup("Empire", "Vlandia", 15), Matchup("Khuzait", "Aserai", 15),
      Matchup("Vlandia", "Empire", -15), Matchup("Sturgia", "Battania", 0) }

RECURSIVE TablesOfLength(_)
TablesOfLength(n) ==
    IF n = 0 THEN {<<>>}
    ELSE {Append(t, e) : t \in TablesOfLength(n - 1), e \in MatchupEntries}

Tables == UNION {TablesOfLength(n) : n \in 0..MaxTable}

Margins == {-300, -15, -8, 0, 7, 15, 240}

InitSelect ==
    /\ unit = 10
    /\ pc = "call"
    /\ faction_matchups \in Tables
    /\ predicted_margin \in Margins
    /\ selection = Idle
    /\ NoRole /\ NoSplit /\ NoRun /\ NoLog

\* The call choose_faction_pair_for_margin(faction_matchups,
\* predicted_margin), line 158 to 171.
ChooseFactionPair ==
    /\ pc = "call"
    /\ selection' = choose_faction_pair_for_margin(faction_matchups,
                                                   predicted_margin)
    /\ pc' = "done"
    /\ UNCHANGED <<logVars, unit, predicted_margin, faction_matchups, roleVars,
                   splitVars, runVars>>

NextSelect == ChooseFactionPair

SpecSelect == InitSelect /\ [][NextSelect]_vars

-----------------------------------------------------------------------------
(* Spec: one run of find_best_global_matches *)

\* A faulty variant of ValidCount: any count from 12 to 48 passes.
ValidCountRange(n) == n >= 12 /\ n <= 48

\* The test of line 212.
ValidCount(n) == n \in {12, 24, 36, 48}

\* A faulty variant of Slices: the last group is never cut.
RECURSIVE SlicesShort(_, _, _)
SlicesShort(ps, num_matches, i) ==
    IF i >= num_matches - 1 THEN <<>>
    ELSE <<SubSeq(ps, i * 12 + 1, (i + 1) * 12)>>
         \o SlicesShort(ps, num_matches, i + 1)

\* partition = [players[i * 12:(i + 1) * 12] for i in range(num_matches)]
RECURSIVE Slices(_, _, _)
Slices(ps, num_matches, i) ==
    IF i >= num_matches THEN <<>>
    ELSE <<SubSeq(ps, i * 12 + 1, (i + 1) * 12)>> \o Slices(ps, num_matches, i + 1)

\* A faulty variant of SwapGroups: the player of group j is copied into
\* group i and group j keeps it.
SwapGroupsCopy(groups, i, j, p, q) ==
    [groups EXCEPT ![i + 1][p + 1] = groups[j + 1][q + 1]]

\* new_partition[i][p], new_partition[j][q] =
\*     new_partition[j][q], new_partition[i][p]       (all count from 0)
SwapGroups(groups, i, j, p, q) ==
    [groups EXCEPT ![i + 1][p + 1] = groups[j + 1][q + 1],
                   ![j + 1][q + 1] = groups[i + 1][p + 1]]

\* A faulty variant of Accepts: a candidate of equal cost is accepted.
AcceptsOnTie(new_cost, cost) == new_cost <= cost

\* The test of line 228.
Accepts(new_cost, cost) == new_cost < cost

\* The four nested for loops, line 221 to 224: the first position, and the
\* position after pos; none = TRUE when the loops have run out.
FirstPosition(num_matches) ==
    IF num_matches >= 2
    THEN [none |-> FALSE, i |-> 0, j |-> 1, p |-> 0, q |-> 0]
    ELSE [none |-> TRUE, i |-> 0, j |-> 0, p |-> 0, q |-> 0]

NextPosition(pos, num_matches) ==
    IF pos.q + 1 < 12 THEN [pos EXCEPT !.q = pos.q + 1]
    ELSE IF pos.p + 1 < 12 THEN [pos EXCEPT !.p = pos.p + 1, !.q = 0]
    ELSE IF pos.j + 1 < num_matches
         THEN [pos EXCEPT !.j = pos.j + 1, !.p = 0, !.q = 0]
    ELSE IF pos.i + 2 < num_matches
         THEN [pos EXCEPT !.i = pos.i + 1, !.j = pos.i + 2, !.p = 0, !.q = 0]
    ELSE [pos EXCEPT !.none = TRUE]

\* player.set_class(role) for the players of one team in turn, line 250 to
\* 251; classes maps a player's id to its selected_class.
RECURSIVE SetClasses(_, _, _, _)
SetClasses(classes, team, assignment, k) ==
    IF k > Len(team) \/ k > Len(assignment) THEN classes
    ELSE SetClasses([classes EXCEPT ![team[k].id] = assignment[k]],
                    team, assignment, k + 1)

\* The loop of line 247 to 251 over the team pairs still to do.
RECURSIVE WriteClasses(_, _)
WriteClasses(classes, splits) ==
    IF splits = <<>> THEN classes
    ELSE LET team1 == Head(splits).team1
             team2 == Head(splits).team2
             after1 == SetClasses(classes, team1,
                                  best_class_assignment(team1).assignment, 1)
         IN WriteClasses(SetClasses(after1, team2,
                                    best_class_assignment(team2).assignment, 1),
                         Tail(splits))

\* Team.faction of the two teams of every split, as Team.__init__ sets it.
NoFactions(splits) == [k \in DOMAIN splits |-> <<"None Selected", "None Selected">>]

\* What class Match defines (match.py): the attributes __init__ sets and
\* the methods of the class.
MatchAttributes ==
    {"id", "games", "winner", "team1", "team2", "map",
     "add_game", "print", "change_map"}

\* map_names, line 242 to 245.
map_names ==
    <<"Xauna", "Echerion", "Trading post", "Town outskirts",
      "Sharis", "Urikskalaar", "Zendyar", "Port Omor">>

-----------------------------------------------------------------------------
(* The pools and files the run is explored on *)

\* 24 players of mixed ratings, three of them above the high-mmr threshold
\* in the first slice.
MixedPool ==
    GroupOf(<<8000, 7800, 7300, 7200, 7100, 6700, 6600, 6100, 6000, 5800,
              5600, 5100, 4900, 4600, 4200, 4100, 3600, 3500, 3300, 2900,
              2800, 2300, 2200, 2200>>)

\* 12 players who are all best at Cavalry.
RECURSIVE CavalryFrom(_)
CavalryFrom(k) ==
    IF k > 12 THEN <<>>
    ELSE <<Player(k, 5300 - 100 * k, 100, 20, 10)>> \o CavalryFrom(k + 1)

CavalryPool == CavalryFrom(1)

\* 12 players who are all best at Archer.
RECURSIVE ArcherFrom(_)
ArcherFrom(k) ==
    IF k > 12 THEN <<>>
    ELSE <<Player(k, 7300 - 200 * k, 30, 20, 100)>> \o ArcherFrom(k + 1)

ArcherPool == ArcherFrom(1)

\* 24 players who are all alike: rating 5000, proficiency 5 in every role.
RECURSIVE EvenFrom(_)
EvenFrom(k) ==
    IF k > 24 THEN <<>>
    ELSE <<Player(k, 5000, 50, 50, 50)>> \o EvenFrom(k + 1)

EvenPool == EvenFrom(1)

\* Two valid pools of 12, two of 24, and two invalid ones: 13 players, none.
Pools == {MixedPool, EvenPool, CavalryPool, ArcherPool,
          SubSeq(MixedPool, 1, 13), <<>>}

\* Contents of config/faction_matchups.json: an empty list, one entry,
\* three entries.
FactionFiles ==
    { <<>>,
      <<Matchup("Empire", "Vlandia", 15)>>,
      <<Matchup("Empire", "Vlandia", 15), Matchup("Vlandia", "Empire", -15),
        Matchup("Sturgia", "Battania", 0)>> }

MaxSeed == 1

Init ==
    /\ unit = 10
    /\ pc = "call"
    /\ players \in Pools
    /\ selected_class = [id \in {players[k].id : k \in DOMAIN players} |-> "None"]
    /\ rng \in 0..MaxSeed
    /\ partition = <<>>
    /\ best_cost = 0
    /\ best_splits = <<>>
    /\ improved = FALSE
    /\ loop = FirstPosition(0)
    /\ faction_matchups = <<>>
    /\ team_factions = <<>>
    /\ matches = <<>>
    /\ invoked = {}
    /\ error = "none"
    /\ NoRole /\ NoSplit /\ NoSelect /\ NoLog

\* Line 211 to 213: the count is not one of 12, 24, 36, 48.
Reject ==
    /\ pc = "call"
    /\ ~ValidCount(Len(players))
    /\ error' = "ValueError"
    /\ pc' = "raised"
    /\ UNCHANGED <<logVars, unit, players, selected_class, rng, partition, best_cost,
                   best_splits, improved, loop, faction_matchups,
                   team_factions, matches, invoked,
                   roleVars, splitVars, selectVars>>

\* Line 211 to 218: the slicing and the first cost.
Begin ==
    /\ pc = "call"
    /\ ValidCount(Len(players))
    /\ \E sliced \in {Slices(players, Len(players) \div 12, 0)} :
         \E first \in {calculate_total_cost(sliced, rng)} :
            /\ partition' = sliced
            /\ best_cost' = first.total_cost
            /\ best_splits' = first.splits
            /\ team_factions' = NoFactions(first.splits)
            /\ rng' = first.rng
    /\ improved' = TRUE
    /\ invoked' = invoked \cup {"calculate_total_cost"}
    /\ pc' = "while"
    /\ UNCHANGED <<logVars, unit, players, selected_class, loop, faction_matchups,
                   matches, error, roleVars, splitVars, selectVars>>

\* Line 219 to 221: the while test holds, a sweep starts.  With one group
\* the for loops have no iteration and the test comes again.
SweepBegin ==
    /\ pc = "while"
    /\ improved
    /\ improved' = FALSE
    /\ loop' = FirstPosition(Len(partition))
    /\ pc' = IF FirstPosition(Len(partition)).none THEN "while" ELSE "trial"
    /\ UNCHANGED <<logVars, unit, players, selected_class, rng, partition, best_cost,
                   best_splits, faction_matchups, team_factions, matches,
                   invoked, error, roleVars, splitVars, selectVars>>

\* Line 225 to 239: the body of the innermost loop at position `loop`, and
\* the breaks or the step to the next position.
Trial ==
    /\ pc = "trial"
    /\ \E new_partition \in {SwapGroups(partition, loop.i, loop.j, loop.p, loop.q)} :
         \E new \in {calculate_total_cost(new_partition, rng)} :
            /\ rng' = new.rng
            /\ IF Accepts(new.total_cost, best_cost)
               THEN /\ best_cost' = new.total_cost
                    /\ partition' = new_partition
                    /\ best_splits' = new.splits
                    /\ team_factions' = NoFactions(new.splits)
                    /\ improved' = TRUE
                    /\ loop' = loop
                    /\ pc' = "while"
               ELSE /\ UNCHANGED <<best_cost, partition, best_splits,
                                   team_factions, improved>>
                    /\ loop' = NextPosition(loop, Len(partition))
                    /\ pc' = IF NextPosition(loop, Len(partition)).none
                             THEN "while" ELSE "trial"
    /\ invoked' = invoked \cup {"calculate_total_cost"}
    /\ UNCHANGED <<logVars, unit, players, selected_class, faction_matchups, matches,
                   error, roleVars, splitVars, selectVars>>

\* Line 219, the while test fails; line 241 to 253: every player's class is
\* set from its team's best assignment and the faction table is loaded.
\* The file holds any of FactionFiles.
WriteRoles ==
    /\ pc = "while"
    /\ ~improved
    /\ selected_class' = WriteClasses(selected_class, best_splits)
    /\ faction_matchups' \in FactionFiles
    /\ invoked' = invoked \cup {"best_class_assignment", "set_class",
                                "load_faction_matchups"}
    /\ pc' = "emit"
    /\ UNCHANGED <<logVars, unit, players, rng, partition, best_cost, best_splits,
                   improved, loop, team_factions, matches, error,
                   roleVars, splitVars, selectVars>>

\* One iteration of the loop of line 256 to 276, for the team pair at index
\* Len(matches): the margin, the faction pair (TypeError at line 171 when
\* the table has no entry), the factions, the outcome probability
\* (OverflowError at line 194 for a hopeless first roster), the map, the
\* Match and match.set_outcome (AttributeError when Match has no such
\* attribute);
\* after the last pair, the return of line 278.
EmitMatch ==
    /\ pc = "emit"
    /\ Len(matches) < Len(best_splits)
    /\ LET i == Len(matches)
           team1 == best_splits[i + 1].team1
           team2 == best_splits[i + 1].team2
       IN \E chosen \in {choose_faction_pair_for_margin(faction_matchups,
                             best_class_assignment(team1).score
                             - best_class_assignment(team2).score)} :
            IF chosen.raised # "none"
            THEN /\ error' = chosen.raised
                 /\ pc' = "raised"
                 /\ invoked' = invoked \cup {"choose_faction_pair_for_margin"}
                 /\ UNCHANGED <<team_factions, rng, matches>>
            ELSE /\ team_factions' = [team_factions EXCEPT
                                        ![i + 1] = <<chosen.value[1], chosen.value[2]>>]
                 /\ \E outcome_prob \in {determine_match_outcome_probability(
                                             team1, team2, chosen.value[3])} :
                      IF outcome_prob.raised # "none"
                      THEN /\ error' = outcome_prob.raised
                           /\ pc' = "raised"
                           /\ invoked' = invoked \cup
                                 {"choose_faction_pair_for_margin", "set_faction",
                                  "determine_match_outcome_probability"}
                           /\ UNCHANGED <<rng, matches>>
                      ELSE /\ rng' = RandNext(rng)
                           /\ invoked' = invoked \cup
                                 {"choose_faction_pair_for_margin", "set_faction",
                                  "determine_match_outcome_probability", "Match",
                                  "set_outcome"}
                           /\ IF "set_outcome" \in MatchAttributes
                              THEN /\ matches' = Append(matches,
                                          [id |-> i + 1, team1 |-> team1,
                                           team2 |-> team2,
                                           map |-> map_names[
                                              RandBelow(rng, Len(map_names)) + 1],
                                           outcome_probability |->
                                              outcome_prob.probability])
                                   /\ error' = error
                                   /\ pc' = IF i + 1 = Len(best_splits)
                                            THEN "returned" ELSE "emit"
                              ELSE /\ matches' = matches
                                   /\ error' = "AttributeError"
                                   /\ pc' = "raised"
    /\ UNCHANGED <<logVars, unit, players, selected_class, partition, best_cost,
                   best_splits, improved, loop, faction_matchups,
                   roleVars, splitVars, selectVars>>

Next == Reject \/ Begin \/ SweepBegin \/ Trial \/ WriteRoles \/ EmitMatch

Spec == Init /\ [][Next]_vars

-----------------------------------------------------------------------------
(* SpecTwice: find_best_global_matches run twice on the same pool *)

\* Pools of the double run: two groups, one group, and no player at all.
TwicePools == {MixedPool, CavalryPool, <<>>}

InitTwice ==
    /\ unit = 10
    /\ pc = "call"
    /\ players \in TwicePools
    /\ selected_class = [id \in {players[k].id : k \in DOMAIN players} |-> "None"]
    /\ run_seed \in 0..MaxSeed
    /\ rng = run_seed
    /\ partition = <<>>
    /\ best_cost = 0
    /\ best_splits = <<>>
    /\ improved = FALSE
    /\ loop = FirstPosition(0)
    /\ faction_matchups = <<>>
    /\ team_factions = <<>>
    /\ matches = <<>>
    /\ invoked = {}
    /\ error = "none"
    /\ first_run = Idle
    /\ role_calls = Idle /\ outcome_calls = Idle
    /\ NoRole /\ NoSplit /\ NoSelect

\* What a finished run leaves: how it ended, the groups, the rosters, the
\* classes written to the players, the factions set on the teams, the
\* Match records, the table it read and the generator.
Outcome ==
    [pc |-> pc, error |-> error, partition |-> partition,
     best_splits |-> best_splits, selected_class |-> selected_class,
     team_factions |-> team_factions, matches |-> matches,
     faction_matchups |-> faction_matchups, rng |-> rng]

\* The caller keeps what the first run produced, seeds the generator as
\* before and calls find_best_global_matches(players) again, as the loop of
\* simulate_matches_cav.py line 69 to 72 does.  The players are the same
\* objects, with the classes the first run wrote; the locals start afresh.
RunAgain ==
    /\ first_run = Idle
    /\ pc \in {"raised", "returned"}
    /\ first_run' = Outcome
    /\ pc' = "call"
    /\ rng' = run_seed
    /\ partition' = <<>>
    /\ best_cost' = 0
    /\ best_splits' = <<>>
    /\ improved' = FALSE
    /\ loop' = FirstPosition(0)
    /\ faction_matchups' = <<>>
    /\ team_factions' = <<>>
    /\ matches' = <<>>
    /\ invoked' = {}
    /\ error' = "none"
    /\ UNCHANGED <<unit, players, selected_class, run_seed, role_calls,
                   outcome_calls, roleVars, splitVars, selectVars>>

NextTwice == Next \/ RunAgain

SpecTwice == InitTwice /\ [][NextTwice]_vars

-----------------------------------------------------------------------------
(* SpecRole: best_class_assignment on one roster of 6 *)

\* Units per 1.0 fine enough for the 1e-6 tolerance to be more than zero.
FineUnit == 10 * 1000 * 1000

\* Proficiencies at resolution 1e-7: a player as good at Cavalry (0.4) as at
\* Infantry (0.5) by predicted score, one a hair better at both and best at
\* Cavalry, and an archer whose record names no other role.
RoleProfiles ==
    { [Cavalry |-> 4000000, Infantry |-> 5000000, Archer |-> 0],
      [Cavalry |-> 4000001, Infantry |-> 5000001, Archer |-> 0],
      [Archer |-> 5000000] }

InitRole ==
    /\ unit = FineUnit
    /\ pc = "call"
    /\ \E profs \in [1..6 -> RoleProfiles] :
         bca_players = [k \in 1..6 |->
                          [id |-> k, mmr |-> 5000, proficiency |-> profs[k]]]
    /\ bca_result = Idle
    /\ NoSplit /\ NoSelect /\ NoRun /\ NoLog
    /\ faction_matchups = Idle

\* The call best_class_assignment(bca_players), line 25 to 57.
BestClassAssignment ==
    /\ pc = "call"
    /\ bca_result' = best_class_assignment(bca_players)
    /\ pc' = "done"
    /\ UNCHANGED <<logVars, unit, bca_players, splitVars, selectVars, runVars,
                   faction_matchups>>

NextRole == BestClassAssignment

SpecRole == InitRole /\ [][NextRole]_vars

-----------------------------------------------------------------------------
(* SpecCache: best_class_assignment called again and again *)

\* Calls of best_class_assignment one history makes.
MaxCalls == 3

\* The rosters the calls are made on: the two rosters of six at the head of
\* the mixed pool, and the first six of the cavalry, archer and even pools.
CacheRosters ==
    { SubSeq(MixedPool, 1, 6), SubSeq(MixedPool, 7, 12),
      SubSeq(CavalryPool, 1, 6), SubSeq(ArcherPool, 1, 6),
      SubSeq(EvenPool, 1, 6) }

InitCache ==
    /\ unit = 10
    /\ pc = "idle"
    /\ role_calls = <<>>
    /\ outcome_calls = Idle /\ run_seed = Idle /\ first_run = Idle
    /\ NoRole /\ NoSplit /\ NoSelect /\ NoRun
    /\ faction_matchups = Idle

\* One more call best_class_assignment(roster), line 25 to 57.  The body
\* reads no table of earlier results and writes none: the loop of line 39
\* runs in every call, which `enumerated` records.
RoleCall ==
    /\ Len(role_calls) < MaxCalls
    /\ \E roster \in CacheRosters :
         role_calls' = Append(role_calls,
                              [players    |-> roster,
                               result     |-> best_class_assignment(roster),
                               enumerated |-> TRUE])
    /\ UNCHANGED <<unit, pc, outcome_calls, run_seed, first_run, roleVars,
                   splitVars, selectVars, runVars, faction_matchups>>

NextCache == RoleCall

SpecCache == InitCache /\ [][NextCache]_vars

-----------------------------------------------------------------------------
(* SpecOutcome: determine_match_outcome_probability called twice *)

\* Calls of determine_match_outcome_probability one history makes.
MaxOutcomeCalls == 2

\* A roster of six players of one rating and one proficiency record.
UniformRoster(mmr, cavalry) ==
    [k \in 1..6 |-> Player(k, mmr, cavalry, 50, 50)]

\* Rosters from weak to strong to absurdly strong, and one of the middle
\* rating with better riders, whose role score differs.
OutcomeRosters ==
    { UniformRoster(1000, 50), UniformRoster(5000, 50),
      UniformRoster(7200, 50), UniformRoster(8000, 50),
      UniformRoster(120000, 50), UniformRoster(5000, 90) }

\* Win differences of a table entry: 0.0 and 1.5.
WinDiffs == {0, 15}

InitOutcome ==
    /\ unit = 10
    /\ pc = "idle"
    /\ outcome_calls = <<>>
    /\ role_calls = Idle /\ run_seed = Idle /\ first_run = Idle
    /\ NoRole /\ NoSplit /\ NoSelect /\ NoRun
    /\ faction_matchups = Idle

\* One more call determine_match_outcome_probability(team1, team2,
\* faction_win_diff), line 186 to 195.  A later call keeps the second
\* roster and the win difference of the first and changes the first roster.
OutcomeCall ==
    /\ Len(outcome_calls) < MaxOutcomeCalls
    /\ \E team1 \in OutcomeRosters, team2 \in OutcomeRosters,
          faction_win_diff \in WinDiffs :
         /\ outcome_calls # <<>> =>
               /\ team2 = outcome_calls[1].team2
               /\ faction_win_diff = outcome_calls[1].faction_win_diff
         /\ outcome_calls' = Append(outcome_calls,
               [team1 |-> team1, team2 |-> team2,
                faction_win_diff |-> faction_win_diff,
                result |-> determine_match_outcome_probability(
                               team1, team2, faction_win_diff)])
    /\ UNCHANGED <<unit, pc, role_calls, run_seed, first_run, roleVars,
                   splitVars, selectVars, runVars, faction_matchups>>

NextOutcome == OutcomeCall

SpecOutcome == InitOutcome /\ [][NextOutcome]_vars

\* What the contract says the call returns, computed from the definition
\* and not by the loop: the role vectors within the caps, the net score of
\* one, the greatest net score, and the first vector to attain it.
RoleCount(v, role) == Cardinality({k \in DOMAIN v : v[k] = role})

CappedVectors(n) ==
    {v \in [1..n -> Range(RoleNames)] :
        RoleCount(v, "Cavalry") <= 2 /\ RoleCount(v, "Archer") <= 2}

NetScore(ps, v) ==
    SumOver(LAMBDA k : PredictedScore(ps[k], v[k]), [k \in DOMAIN ps |-> k])
    - penalty_weight * unit *
        SumOver(LAMBDA r : Abs(RoleCount(v, RoleNames[r]) - ideal_counts[RoleNames[r]]),
                <<1, 2, 3>>)

\* v comes before w in the enumeration order of itertools.product.
Before(v, w) ==
    \E k \in DOMAIN v :
        /\ \A m \in 1..(k - 1) : v[m] = w[m]
        /\ \E a, b \in DOMAIN RoleNames :
              RoleNames[a] = v[k] /\ RoleNames[b] = w[k] /\ a < b

ContractResult(ps) ==
    LET nets == [v \in CappedVectors(Len(ps)) |-> NetScore(ps, v)]
        best == CHOOSE v \in DOMAIN nets :
                   /\ \A w \in DOMAIN nets : nets[w] <= nets[v]
                   /\ \A w \in DOMAIN nets : nets[w] = nets[v] => ~Before(w, v)
    IN [score |-> nets[best], assignment |-> best]

\* C4: for any 6 players best_class_assignment returns the greatest net
\* score over the role vectors within the caps (at most 2 Cavalry, at most 2
\* Archer), with the first vector in enumeration order that attains it.
C4_ReturnsFirstMaximum ==
    pc = "done" => bca_result = ContractResult(bca_players)

\* C5: the early exit never changes the result: what the call returns is what
\* the same enumeration returns when it is run to the end.
C5_EarlyExitIsTransparent ==
    pc = "done" => bca_result = EnumerateAll(bca_players, FALSE)

-----------------------------------------------------------------------------
(* Properties of improved_team_split (SpecSplit, SpecExact) *)

\* The snake split has been taken: the locals of the loop are set.
Seeded == pc \in {"loop", "returned"}

\* C6, as stated: the objective of the split find_best_team_split returns
\* equals the least objective over all 924 ways of choosing roster 1.
C6_MatchesBruteForce ==
    pc = "returned" => best_score = oracle_min

\* C6, corrected: the objective of the split find_best_team_split returns is
\* never below the least objective over all 924 ways of choosing roster 1 by
\* more than the early exit of best_class_assignment lets the two rosters'
\* scores move, and it can be above it.
C6_NotBelowBruteForce ==
    pc = "returned" => best_score + 2 * theta * ExitTolerance >= oracle_min

C6_AboveBruteForce ==
    pc = "returned" /\ best_score > oracle_min

\* C7: for any 12 players, budget and draws, the best objective of
\* improved_team_split is never above the objective of its snake-split seed
\* and is the compute_objective value of the two rosters it holds; and an
\* iteration changes the rosters only when it strictly lowers the objective.
C7_NeverWorseThanSeed ==
    /\ [](Seeded => /\ best_score <= seed_score
                    /\ best_score = compute_objective(best_team1_players,
                                                      best_team2_players))
    /\ [][pc = "loop" =>
             \/ best_score' < best_score
             \/ /\ best_score' = best_score
                /\ best_team1_players' = best_team1_players
                /\ best_team2_players' = best_team2_players]_vars

C7_SwapKept ==
    pc = "returned" /\ iterations > 0 /\ best_score < seed_score

-----------------------------------------------------------------------------
(* Properties of choose_faction_pair_for_margin (SpecSelect) *)

\* |margin + win_differential| of entry k of the table.
Distance(k) == Abs(predicted_margin + faction_matchups[k].WinDifference)

\* Entry k is the first of the entries with the least distance.
FirstClosest(k) ==
    /\ \A m \in DOMAIN faction_matchups : Distance(k) <= Distance(m)
    /\ \A m \in 1..(k - 1) : Distance(k) < Distance(m)

\* C9: on a table with at least one entry the call returns the entry with
\* the least |margin + win_differential|, the first such entry in table
\* order; on a table of one entry it returns that entry.
C9_ReturnsFirstClosest ==
    (pc = "done" /\ faction_matchups # <<>>) =>
        /\ selection.raised = "none"
        /\ \E k \in DOMAIN faction_matchups :
              /\ FirstClosest(k)
              /\ selection.value = <<faction_matchups[k].Faction1,
                                     faction_matchups[k].Faction2,
                                     faction_matchups[k].WinDifference>>
        /\ Len(faction_matchups) = 1 =>
              selection.value = <<faction_matchups[1].Faction1,
                                  faction_matchups[1].Faction2,
                                  faction_matchups[1].WinDifference>>

\* A later entry with other factions ties the entry returned.
C9_TieReturned ==
    /\ pc = "done"
    /\ \E k, m \in DOMAIN faction_matchups :
          /\ k < m
          /\ FirstClosest(k)
          /\ Distance(m) = Distance(k)
          /\ faction_matchups[m].Faction1 # faction_matchups[k].Faction1
          /\ selection.value[1] = faction_matchups[k].Faction1

-----------------------------------------------------------------------------
(* Properties of find_best_global_matches (Spec) *)

\* The places of seq that hold the player with this id.
Places(seq, id) == {k \in DOMAIN seq : seq[k].id = id}

RECURSIVE Flatten(_)
Flatten(groups) ==
    IF groups = <<>> THEN <<>> ELSE Head(groups) \o Flatten(Tail(groups))

\* seq holds the players of pool, each of them once and nobody else.
ExactlyOnce(seq, pool) ==
    /\ Len(seq) = Len(pool)
    /\ \A k \in DOMAIN pool : Cardinality(Places(seq, pool[k].id)) = 1

\* The slicing has been done: partition and best_splits are set.
Sliced == pc \in {"while", "trial", "emit", "returned"}
          \/ (pc = "raised" /\ error # "ValueError")

\* The classes have been written onto the players.
RolesWritten == "set_class" \in invoked

\* C1: on a pool of 12, 24, 36 or 48 players, after the slicing and after
\* every accepted or rejected swap of players between groups or between
\* rosters, every player of the pool is in exactly one group, and in exactly
\* one of the two rosters of its group, and in no other roster.
C1_GroupsAndRostersPartition ==
    Sliced =>
        /\ ExactlyOnce(Flatten(partition), players)
        /\ Len(best_splits) = Len(partition)
        /\ \A g \in DOMAIN partition :
              ExactlyOnce(best_splits[g].team1 \o best_splits[g].team2,
                          partition[g])

\* The sweep is over, a swap between groups was accepted, and a swap
\* between rosters was kept in some group.
C1_AfterSwaps ==
    /\ pc = "emit"
    /\ partition # Slices(players, Len(players) \div 12, 0)
    /\ \E g \in DOMAIN partition :
          best_splits[g].team1 # heuristic_team_split(partition[g]).team1

\* C2: on a pool of N = 12, 24, 36 or 48 players there are N/12 groups and
\* N/12 splits, every group has 12 players and each of its two rosters 6,
\* from the slicing on and after every swap.
C2_MatchAndRosterSizes ==
    Sliced =>
        /\ Len(partition) * 12 = Len(players)
        /\ Len(best_splits) * 12 = Len(players)
        /\ \A g \in DOMAIN partition : Len(partition[g]) = 12
        /\ \A g \in DOMAIN best_splits :
              /\ Len(best_splits[g].team1) = 6
              /\ Len(best_splits[g].team2) = 6

\* Two groups at the end of a sweep in which a swap between groups was
\* accepted.
C2_TwoMatches ==
    /\ pc = "emit"
    /\ Len(players) = 24
    /\ Len(best_splits) = 2
    /\ partition # Slices(players, 2, 0)

\* The players of team that hold this class.
Holding(team, class) == {k \in DOMAIN team : selected_class[team[k].id] = class}

\* C3: once the classes are written onto the players, no roster has more
\* than 2 players of class Cavalry or more than 2 of class Archer.
C3_CavalryAndArcherCapped ==
    RolesWritten =>
        \A g \in DOMAIN best_splits :
            \A team \in {best_splits[g].team1, best_splits[g].team2} :
                /\ Cardinality(Holding(team, "Cavalry")) <= 2
                /\ Cardinality(Holding(team, "Archer")) <= 2

\* Every player of a roster is strongest at Cavalry, and 2 of them hold it.
C3_AllStrongestAtCavalry ==
    /\ RolesWritten
    /\ \E g \in DOMAIN best_splits :
          /\ \A k \in DOMAIN best_splits[g].team1 :
                LET player == best_splits[g].team1[k]
                IN /\ player.proficiency["Cavalry"] > player.proficiency["Infantry"]
                   /\ player.proficiency["Cavalry"] > player.proficiency["Archer"]
          /\ Cardinality(Holding(best_splits[g].team1, "Cavalry")) = 2

\* The same for Archer.
AllStrongestAtArcher ==
    /\ RolesWritten
    /\ \E g \in DOMAIN best_splits :
          /\ \A k \in DOMAIN best_splits[g].team1 :
                LET player == best_splits[g].team1[k]
                IN /\ player.proficiency["Archer"] > player.proficiency["Infantry"]
                   /\ player.proficiency["Archer"] > player.proficiency["Cavalry"]
          /\ Cardinality(Holding(best_splits[g].team1, "Archer")) = 2

\* C8: with a player count other than 12, 24, 36, 48 the run can only end
\* in the ValueError, and nothing is evaluated or changed: no partition, no
\* split, no class, no faction, no match.
C8_InvalidCountRejectedFirst ==
    Len(players) \notin {12, 24, 36, 48} =>
        /\ pc \in {"call", "raised"}
        /\ pc = "raised" => error = "ValueError"
        /\ invoked = {}
        /\ partition = <<>> /\ best_splits = <<>>
        /\ team_factions = <<>> /\ matches = <<>>
        /\ \A id \in DOMAIN selected_class : selected_class[id] = "None"

C8_ThirteenRejected ==
    pc = "raised" /\ error = "ValueError" /\ Len(players) = 13

\* The faction table has been loaded and has no entry.
EmptyTableLoaded ==
    "load_faction_matchups" \in invoked /\ faction_matchups = <<>>

\* C10: when the faction table is empty the run ends in an error before
\* choose_faction_pair_for_margin is invoked; no faction is set and no match
\* is appended.
C10_EmptyTableStopsBeforeSelector ==
    EmptyTableLoaded =>
        /\ "choose_faction_pair_for_margin" \notin invoked
        /\ team_factions = NoFactions(best_splits)
        /\ matches = <<>>

\* C13: on a pool of 12, 24, 36 or 48 players and a faction table with at
\* least one entry the run raises nothing: every iteration of the match
\* loop appends its Match, with its outcome set, and the run returns them.
C13_RunsToCompletion ==
    (Len(players) \in {12, 24, 36, 48} /\ "load_faction_matchups" \in invoked
        /\ faction_matchups # <<>>) =>
        /\ error = "none"
        /\ pc = "returned" => Len(matches) = Len(best_splits)

\* Where the sweep stands between two acceptances: 3 before a pass, 2 in a
\* pass, 1 after a pass in which nothing was accepted.
Stage == IF pc = "trial" THEN 2 ELSE IF improved THEN 3 ELSE 1

\* Position a of the nested loops comes before position b.
PosBefore(a, b) ==
    \/ a.i < b.i
    \/ a.i = b.i /\ a.j < b.j
    \/ a.i = b.i /\ a.j = b.j /\ a.p < b.p
    \/ a.i = b.i /\ a.j = b.j /\ a.p = b.p /\ a.q < b.q

\* C15: the sweep terminates.  A trial replaces partition, best_cost and
\* best_splits only together and only by a candidate of strictly lower cost,
\* and the sweep then restarts at the first position; any other trial
\* leaves the three alone; the while loop is left exactly when a pass ends
\* with nothing accepted; with one group no trial is made; and every step
\* of the sweep lowers (best_cost, Stage, positions left), which cannot go
\* on for ever because best_cost is never negative.
C15_SweepTerminates ==
    /\ [][pc = "trial" =>
            \/ /\ best_cost' < best_cost
               /\ partition' = SwapGroups(partition, loop.i, loop.j, loop.p, loop.q)
               /\ improved' /\ pc' = "while"
            \/ /\ UNCHANGED <<best_cost, partition, best_splits, improved>>
               /\ ~improved
               /\ pc' = IF loop.i + 2 >= Len(partition) /\ loop.j + 1 >= Len(partition)
                           /\ loop.p = 11 /\ loop.q = 11
                        THEN "while" ELSE "trial"]_vars
    /\ [][pc = "while" =>
            IF improved
            THEN /\ UNCHANGED <<best_cost, partition, best_splits>>
                 /\ ~improved'
                 /\ pc' = (IF Len(partition) >= 2 THEN "trial" ELSE "while")
                 /\ Len(partition) >= 2 =>
                       loop'.i = 0 /\ loop'.j = 1 /\ loop'.p = 0 /\ loop'.q = 0
            ELSE pc' = "emit"]_vars
    /\ [](Len(players) = 12 => pc # "trial")
    /\ [](best_cost >= 0)
    /\ [][(pc \in {"while", "trial"} /\ pc' \in {"while", "trial"}) =>
            \/ best_cost' < best_cost
            \/ /\ best_cost' = best_cost
               /\ \/ Stage' < Stage
                  \/ Stage' = 2 /\ Stage = 2 /\ PosBefore(loop, loop')]_vars

\* A pass over all 144 index pairs of two groups ended with nothing
\* accepted, after an earlier pass in which a swap was accepted.
C15_LastPassDone ==
    /\ pc = "while" /\ ~improved
    /\ Len(partition) = 2
    /\ loop.none /\ loop.p = 11 /\ loop.q = 11
    /\ partition # Slices(players, 2, 0)

-----------------------------------------------------------------------------
(* C12: memoization of the role assigner *)

\* The signature of a roster: of every player, in order, the identifier,
\* the rating and the proficiency entries.
Signature(roster) ==
    [k \in DOMAIN roster |->
        <<roster[k].id, roster[k].mmr, roster[k].proficiency>>]

\* C12: two calls of best_class_assignment on rosters of the same signature
\* return the same (score, assignment), and the later of the two returns
\* the remembered pair without running the enumeration again.
C12_SecondCallIsRemembered ==
    \A a, b \in DOMAIN role_calls :
        (a < b /\ Signature(role_calls[a].players)
                    = Signature(role_calls[b].players)) =>
            /\ role_calls[b].result = role_calls[a].result
            /\ ~role_calls[b].enumerated

-----------------------------------------------------------------------------
(* C14: the outcome probability *)

\* The rating gap and the role-score margin of a call.
RatingGap(call) == total_mmr(call.team1) - total_mmr(call.team2)

ScoreMargin(call) ==
    best_class_assignment(call.team1).score
      - best_class_assignment(call.team2).score

\* C14: every call of determine_match_outcome_probability returns a value
\* strictly between 0 and 1, and of two calls with the same role-score
\* margin and the same win difference, the one with the smaller rating gap
\* returns the strictly smaller value.
C14_InsideAndIncreasing ==
    /\ \A a \in DOMAIN outcome_calls :
          /\ outcome_calls[a].result.raised = "none"
          /\ outcome_calls[a].result.probability < ProbabilityOne
    /\ \A a, b \in DOMAIN outcome_calls :
          (/\ ScoreMargin(outcome_calls[a]) = ScoreMargin(outcome_calls[b])
           /\ outcome_calls[a].faction_win_diff
                = outcome_calls[b].faction_win_diff
           /\ RatingGap(outcome_calls[a]) < RatingGap(outcome_calls[b])) =>
              outcome_calls[a].result.probability
                < outcome_calls[b].result.probability

-----------------------------------------------------------------------------
(* C11: the same pool, table and seed give the same result *)

\* A run has ended: it returned or it raised.
Ended == pc \in {"raised", "returned"}

=============================================================================
